---- MODULE Spec2Model ----
(***************************************************************************)
(* A model of the trading agent of src/: the position ledger               *)
(* (trading/position_manager.py), the trading session and its scan loop    *)
(* (main.py) and the risk-managed trader with its stop/target watcher      *)
(* (trading/trader.py).                                                    *)
(*                                                                         *)
(* Money is in whole rupees and percentages are integers, so the float     *)
(* arithmetic of the source is exact on every value used here.  A Python   *)
(* dict is a sequence of entries in insertion order, one entry per key.    *)
(***************************************************************************)
EXTENDS Integers, Sequences, FiniteSets, TLC

VARIABLES
    today,            \* datetime.now().date(), as a day number
    positions,        \* PositionManager.positions
    daily_pnl,        \* PositionManager.daily_pnl
    last_reset,       \* PositionManager.last_reset
    trades,           \* rows written by db_manager.record_trade
    orders,           \* orders the venue filled (GrowwAutomation.execute_trade returned)
    logged_in,        \* GrowwAutomation.logged_in
    is_trading,       \* TradingSystem.is_trading
    watched_symbols,  \* TradingSystem.watched_symbols
    portfolio_value,  \* portfolio_value of the owner of the ledger
    trading_task,     \* TradingSystem.trading_task and where its coroutine stands
    scan_idx,         \* index reached by "for symbol in self.watched_symbols"
    is_active,        \* Trader.is_active
    faults,           \* number of collaborator calls (venue, sink, data) that failed
    result            \* the last call made and how it ended

vars == <<today, positions, daily_pnl, last_reset, trades, orders, logged_in,
          is_trading, watched_symbols, portfolio_value, trading_task, scan_idx,
          is_active, faults, result>>

ledger_vars == <<positions, daily_pnl, last_reset, trades>>
system_vars == <<logged_in, is_trading, watched_symbols, portfolio_value,
                 trading_task, scan_idx>>

-----------------------------------------------------------------------------
(* Bounds of the model *)

MaxDay == 1
MaxLedgerTrades == 3
MaxTrades == 4
MaxOrders == 4
MaxFaults == 1

(* Program constants *)

MAX_DAILY_LOSS_PERCENT == 1
MAX_POSITION_SIZE_PERCENT == 5
MIN_SIGNAL_STRENGTH_TENTHS == 7
total_signals == 7
VIX_THRESHOLD == 25
MARKET_OPEN_HOUR == 9
MARKET_CLOSE_HOUR == 15
risk_per_trade_percent == 2
trailing_sl_percent == 2
target_profit_percent == 3

(* Inputs *)

Symbols == {"AAA", "BBB"}
Prices == {80, 110}
Quantities == {10}
PortfolioValues == {1000, 100000}
LedgerPrices == {100, 110}
LedgerPortfolioValues == {10000, 100000}
\* Python's None for an optional number, and a number held in its place
None == <<>>
Some(x) == <<x>>
Val(o) == o[1]
NoSymbol == "None"
NoTask == "None"

-----------------------------------------------------------------------------
(* Python dict, as a sequence of entries keyed by .symbol *)

HasKey(d, k) == \E i \in 1..Len(d) : d[i].symbol = k

IndexOf(d, k) == CHOOSE i \in 1..Len(d) : d[i].symbol = k

GetItem(d, k) == d[IndexOf(d, k)]

DelItem(d, k) == SelectSeq(d, LAMBDA e : e.symbol # k)

Keys(d) == {d[i].symbol : i \in 1..Len(d)}

-----------------------------------------------------------------------------
(* PositionManager *)

Ledger == [positions |-> positions, daily_pnl |-> daily_pnl,
           last_reset |-> last_reset, trades |-> trades]

reset_daily_metrics_always(l, current_date) ==
    [l EXCEPT !.daily_pnl = 0, !.last_reset = current_date]

reset_daily_metrics(l, current_date) ==
    IF current_date > l.last_reset
    THEN [l EXCEPT !.daily_pnl = 0, !.last_reset = current_date]
    ELSE l

max_daily_loss(pv) == (pv * MAX_DAILY_LOSS_PERCENT) \div 100

can_trade_ge(l, pv) == l.daily_pnl >= -max_daily_loss(pv)

can_trade_test(l, pv) == l.daily_pnl > -max_daily_loss(pv)

can_trade(l, current_date, pv) ==
    LET l1 == reset_daily_metrics(l, current_date)
    IN  [l |-> l1, ret |-> can_trade_test(l1, pv)]

calculate_position_size_rounds_up(pv, current_price) ==
    ((pv * MAX_POSITION_SIZE_PERCENT) \div 100 + current_price - 1) \div current_price

calculate_position_size(pv, current_price) ==
    ((pv * MAX_POSITION_SIZE_PERCENT) \div 100) \div current_price

NewPosition(symbol, entry_price, quantity, now) ==
    [symbol |-> symbol, entry_price |-> entry_price, quantity |-> quantity,
     entry_time |-> now, current_price |-> None, unrealized_pnl |-> None]

SetItem_append(d, k, e) == Append(d, e)

SetItem(d, k, e) ==
    IF HasKey(d, k) THEN [d EXCEPT ![IndexOf(d, k)] = e] ELSE Append(d, e)

record_trade(t, symbol, trade_type) ==
    Append(t, [symbol |-> symbol, trade_type |-> trade_type])

\* db_ok = FALSE: db_manager.record_trade raises
add_position(l, now, symbol, entry_price, quantity, db_ok) ==
    LET l1 == [l EXCEPT !.positions =
                  SetItem(@, symbol, NewPosition(symbol, entry_price, quantity, now))]
    IN  IF db_ok
        THEN [l |-> [l1 EXCEPT !.trades = record_trade(@, symbol, "BUY")],
              raised |-> FALSE]
        ELSE [l |-> l1, raised |-> TRUE]

position_pnl(position, exit_price) ==
    (exit_price - position.entry_price) * position.quantity

close_position_records_unheld(l, symbol, exit_price, db_ok) ==
    IF HasKey(l.positions, symbol)
    THEN LET pnl == position_pnl(GetItem(l.positions, symbol), exit_price)
         IN  [l |-> [l EXCEPT !.daily_pnl = @ + pnl,
                              !.trades = record_trade(@, symbol, "SELL"),
                              !.positions = DelItem(@, symbol)],
              ret |-> Some(pnl), raised |-> FALSE]
    ELSE [l |-> [l EXCEPT !.trades = record_trade(@, symbol, "SELL")],
          ret |-> Some(0), raised |-> FALSE]

close_position_keep(l, symbol, exit_price, db_ok) ==
    IF HasKey(l.positions, symbol)
    THEN LET pnl == position_pnl(GetItem(l.positions, symbol), exit_price)
         IN  [l |-> [l EXCEPT !.daily_pnl = @ + pnl,
                              !.trades = record_trade(@, symbol, "SELL")],
              ret |-> Some(pnl), raised |-> FALSE]
    ELSE [l |-> l, ret |-> Some(0), raised |-> FALSE]

close_position(l, symbol, exit_price, db_ok) ==
    IF HasKey(l.positions, symbol)
    THEN LET pnl == position_pnl(GetItem(l.positions, symbol), exit_price)
             l1 == [l EXCEPT !.daily_pnl = @ + pnl]
         IN  IF db_ok
             THEN [l |-> [l1 EXCEPT !.trades = record_trade(@, symbol, "SELL"),
                                    !.positions = DelItem(@, symbol)],
                   ret |-> Some(pnl), raised |-> FALSE]
             ELSE [l |-> l1, ret |-> None, raised |-> TRUE]
    ELSE [l |-> l, ret |-> Some(0), raised |-> FALSE]

\* current_prices: a function from the symbols it holds to their price
MarkPosition(p, current_prices) ==
    IF p.symbol \in DOMAIN current_prices
    THEN [p EXCEPT !.current_price = Some(current_prices[p.symbol]),
                   !.unrealized_pnl =
                       Some((current_prices[p.symbol] - p.entry_price) * p.quantity)]
    ELSE p

RECURSIVE SumMarked(_, _, _)
SumMarked(d, current_prices, i) ==
    IF i > Len(d) THEN 0
    ELSE (IF d[i].symbol \in DOMAIN current_prices
          THEN Val(MarkPosition(d[i], current_prices).unrealized_pnl) ELSE 0)
         + SumMarked(d, current_prices, i + 1)

update_position_values(l, current_prices) ==
    [l |-> [l EXCEPT !.positions =
                [i \in 1..Len(l.positions) |-> MarkPosition(l.positions[i], current_prices)]],
     ret |-> Some(SumMarked(l.positions, current_prices, 1))]

-----------------------------------------------------------------------------
(* The last call and its outcome *)

\* price: the price or portfolio value passed, ret: a number returned, ok: a
\* boolean returned (FALSE when none is), raised: the call raised
Call(op, symbol, price, ret, ok, raised) ==
    [op |-> op, symbol |-> symbol, price |-> price, ret |-> ret, ok |-> ok,
     raised |-> raised]

\* a failed collaborator call is counted, up to the bound
SinkOutcome(raised) ==
    IF raised
    THEN faults < MaxFaults /\ faults' = faults + 1
    ELSE UNCHANGED faults

SetLedger(l) ==
    /\ positions' = l.positions
    /\ daily_pnl' = l.daily_pnl
    /\ last_reset' = l.last_reset
    /\ trades' = l.trades

Init ==
    /\ today = 0
    /\ positions = <<>>
    /\ daily_pnl = 0
    /\ last_reset = 0
    /\ trades = <<>>
    /\ orders = <<>>
    /\ logged_in = FALSE
    /\ is_trading = FALSE
    /\ watched_symbols = <<>>
    /\ portfolio_value = 0
    /\ trading_task = NoTask
    /\ scan_idx = 0
    /\ is_active = FALSE
    /\ faults = 0
    /\ result = Call("init", NoSymbol, None, None, FALSE, FALSE)

\* the calendar date advances
NextDay ==
    /\ today < MaxDay
    /\ today' = today + 1
    /\ UNCHANGED <<ledger_vars, orders, system_vars, is_active, faults,
                   result>>

-----------------------------------------------------------------------------
(* LedgerSpec: a client calling the public methods of one PositionManager *)

LAddPosition ==
    \E symbol \in Symbols, price \in LedgerPrices, quantity \in Quantities,
       db_ok \in BOOLEAN :
        LET r == add_position(Ledger, today, symbol, price, quantity, db_ok)
        IN  /\ Len(trades) < MaxLedgerTrades
            /\ SinkOutcome(r.raised)
            /\ SetLedger(r.l)
            /\ result' = Call("add_position", symbol, Some(price), None, FALSE, r.raised)
            /\ UNCHANGED <<today, orders, system_vars, is_active>>

LClosePosition ==
    \E symbol \in Symbols, price \in LedgerPrices, db_ok \in BOOLEAN :
        LET r == close_position(Ledger, symbol, price, db_ok)
        IN  /\ Len(trades) < MaxLedgerTrades
            /\ SinkOutcome(r.raised)
            /\ SetLedger(r.l)
            /\ result' = Call("close_position", symbol, Some(price), r.ret, FALSE, r.raised)
            /\ UNCHANGED <<today, orders, system_vars, is_active>>

LResetDailyMetrics ==
    /\ SetLedger(reset_daily_metrics(Ledger, today))
    /\ result' = Call("reset_daily_metrics", NoSymbol, None, None, FALSE, FALSE)
    /\ UNCHANGED <<today, orders, system_vars, is_active, faults>>

LCanTrade ==
    \E pv \in LedgerPortfolioValues :
        LET r == can_trade(Ledger, today, pv)
        IN  /\ SetLedger(r.l)
            /\ result' = Call("can_trade", NoSymbol, Some(pv), None, r.ret, FALSE)
            /\ UNCHANGED <<today, orders, system_vars, is_active, faults>>

PriceMaps == UNION {[S -> Prices] : S \in SUBSET Symbols}

LUpdatePositionValues ==
    \E current_prices \in PriceMaps :
        LET r == update_position_values(Ledger, current_prices)
        IN  /\ SetLedger(r.l)
            /\ result' = [op |-> "update_position_values",
                          current_prices |-> current_prices, ret |-> r.ret]
            /\ UNCHANGED <<today, orders, system_vars, is_active, faults>>

LedgerNext ==
    \/ NextDay
    \/ LAddPosition
    \/ LClosePosition
    \/ LResetDailyMetrics
    \/ LCanTrade

LedgerSpec == Init /\ [][LedgerNext]_vars

-----------------------------------------------------------------------------
(* GrowwAutomation and the analysis, as the session sees them *)

\* the ledger, the venue's order log and the count of failed collaborator
\* calls, threaded through the calls of one handler
World == [l |-> Ledger, orders |-> orders, faults |-> faults]

SetWorld(w) ==
    /\ SetLedger(w.l)
    /\ orders' = w.orders
    /\ faults' = w.faults

WithinBounds(w) ==
    /\ Len(w.l.trades) <= MaxTrades
    /\ Len(w.orders) <= MaxOrders
    /\ w.faults <= MaxFaults

\* GrowwAutomation.execute_trade: returns status 'success' or raises
automation_execute_trade(w, symbol, quantity, trade_type, venue_ok) ==
    IF venue_ok
    THEN [w EXCEPT !.orders = Append(@, [symbol |-> symbol, trade_type |-> trade_type,
                                         quantity |-> quantity])]
    ELSE [w EXCEPT !.faults = @ + 1]

\* PositionManager calls made on the world's ledger
w_add_position(w, now, symbol, entry_price, quantity, db_ok) ==
    LET r == add_position(w.l, now, symbol, entry_price, quantity, db_ok)
    IN  [w EXCEPT !.l = r.l, !.faults = IF r.raised THEN @ + 1 ELSE @]

w_close_position(w, symbol, exit_price, db_ok) ==
    LET r == close_position(w.l, symbol, exit_price, db_ok)
    IN  [w EXCEPT !.l = r.l, !.faults = IF r.raised THEN @ + 1 ELSE @]

\* TechnicalAnalyzer.generate_signal, from its vote counts
Votes == {v \in [buy : 0..6, sell : 0..6] : v.buy + v.sell \in {5, 6}}

\* the votes the scan cycle is driven with: a strong buy, a tie, a strong sell
ScanVotes == {v \in Votes : v.buy + v.sell = 6 /\ v.buy \in {5, 3, 1}}

Max(a, b) == IF a >= b THEN a ELSE b

direction_ge(v) == IF v.buy >= v.sell THEN 1 ELSE -1

direction(v) == IF v.buy > v.sell THEN 1 ELSE IF v.sell > v.buy THEN -1 ELSE 0

strength_passes_of_votes_cast(v) ==
    10 * Max(v.buy, v.sell) >= MIN_SIGNAL_STRENGTH_TENTHS * (v.buy + v.sell)

\* signal['strength'] >= settings.MIN_SIGNAL_STRENGTH, strength = max / total_signals
strength_passes(v) ==
    10 * Max(v.buy, v.sell) >= MIN_SIGNAL_STRENGTH_TENTHS * total_signals

-----------------------------------------------------------------------------
(* TradingSystem *)

process_signals_any_strength(w, now, pv, symbol, v, current_price, venue_ok, db_ok) ==
    IF direction(v) = 1 /\ ~HasKey(w.l.positions, symbol)
    THEN LET quantity == calculate_position_size(pv, current_price)
         IN  IF quantity > 0 /\ venue_ok
             THEN w_add_position(automation_execute_trade(w, symbol, quantity, "BUY", TRUE),
                                 now, symbol, current_price, quantity, db_ok)
             ELSE IF quantity > 0
             THEN automation_execute_trade(w, symbol, quantity, "BUY", FALSE)
             ELSE w
    ELSE IF direction(v) = -1 /\ HasKey(w.l.positions, symbol)
    THEN LET position == GetItem(w.l.positions, symbol)
             w1 == automation_execute_trade(w, symbol, position.quantity, "SELL", venue_ok)
         IN  IF venue_ok THEN w_close_position(w1, symbol, current_price, db_ok) ELSE w1
    ELSE w

process_signals_ignores_status(w, now, pv, symbol, v, current_price, venue_ok, db_ok) ==
    IF strength_passes(v)
    THEN IF direction(v) = 1 /\ ~HasKey(w.l.positions, symbol)
         THEN LET quantity == calculate_position_size(pv, current_price)
              IN  IF quantity > 0
                  THEN w_add_position(
                           automation_execute_trade(w, symbol, quantity, "BUY", venue_ok),
                           now, symbol, current_price, quantity, db_ok)
                  ELSE w
         ELSE IF direction(v) = -1 /\ HasKey(w.l.positions, symbol)
         THEN w_close_position(
                  automation_execute_trade(w, symbol, GetItem(w.l.positions, symbol).quantity,
                                           "SELL", venue_ok),
                  symbol, current_price, db_ok)
         ELSE w
    ELSE w

process_signals(w, now, pv, symbol, v, current_price, venue_ok, db_ok) ==
    IF strength_passes(v)
    THEN IF direction(v) = 1 /\ ~HasKey(w.l.positions, symbol)
         THEN LET quantity == calculate_position_size(pv, current_price)
              IN  IF quantity > 0
                  THEN LET w1 == automation_execute_trade(w, symbol, quantity, "BUY", venue_ok)
                       IN  IF venue_ok
                           THEN w_add_position(w1, now, symbol, current_price, quantity, db_ok)
                           ELSE w1
                  ELSE w
         ELSE IF direction(v) = -1 /\ HasKey(w.l.positions, symbol)
         THEN LET position == GetItem(w.l.positions, symbol)
                  w1 == automation_execute_trade(w, symbol, position.quantity, "SELL", venue_ok)
              IN  IF venue_ok
                  THEN w_close_position(w1, symbol, current_price, db_ok)
                  ELSE w1
         ELSE w
    ELSE w

\* One pass of "for symbol in positions" of close_all_positions, from entry i on.
\* o[symbol] is what the collaborators do for that symbol: price is None when
\* get_stock_price raises.  Deleting an entry makes the dict iterator raise
\* RuntimeError at the next step of the for statement, outside the try.
RECURSIVE close_all_from(_, _, _)
close_all_from(w, i, o) ==
    IF i > Len(w.l.positions)
    THEN [w |-> w, raised |-> FALSE]
    ELSE LET symbol == w.l.positions[i].symbol
             position == w.l.positions[i]
         IN  IF o[symbol].price = None
             THEN close_all_from([w EXCEPT !.faults = @ + 1], i + 1, o)
             ELSE LET w1 == automation_execute_trade(w, symbol, position.quantity, "SELL",
                                          o[symbol].venue_ok)
                  IN  IF ~o[symbol].venue_ok
                      THEN close_all_from(w1, i + 1, o)
                      ELSE IF ~o[symbol].db_ok
                      THEN close_all_from(
                               w_close_position(w1, symbol, Val(o[symbol].price), FALSE),
                               i + 1, o)
                      ELSE [w |-> w_close_position(w1, symbol, Val(o[symbol].price), TRUE),
                            raised |-> TRUE]

close_all_positions(w, o) == close_all_from(w, 1, o)

WatchLists == {<<"AAA", "BBB">>}
Hours == {8, 10, 16}
\* india_vix as read by market_context.get('india_vix', 0): 0 when the context
\* could not be fetched
CalmVix == {0, 20}
VolatileVix == {30}
\* what happens to one symbol of close-all: get_stock_price raises, the order
\* fails, the sink fails, or all three calls succeed
CloseOutcomes ==
    {[price |-> None, venue_ok |-> TRUE, db_ok |-> TRUE]}
    \cup [price : {Some(p) : p \in Prices}, venue_ok : {FALSE}, db_ok : {TRUE}]
    \cup [price : {Some(p) : p \in Prices}, venue_ok : {TRUE}, db_ok : BOOLEAN]

\* the event loop runs one coroutine at a time: a request handler runs only
\* while the loop task is not inside an iteration
LoopIdle == trading_task # "running"

Start_while_trading ==
    \E symbols \in WatchLists, pv \in PortfolioValues, login_ok \in BOOLEAN :
        /\ LoopIdle
        /\ IF ~logged_in /\ ~login_ok
           THEN /\ faults < MaxFaults
                /\ faults' = faults + 1
                /\ result' = Call("start", NoSymbol, None, None, FALSE, TRUE)
                /\ UNCHANGED <<logged_in, is_trading, watched_symbols, portfolio_value,
                               trading_task>>
           ELSE /\ logged_in' = TRUE
                /\ watched_symbols' = symbols
                /\ portfolio_value' = pv
                /\ is_trading' = TRUE
                /\ trading_task' = "created"
                /\ result' = Call("start", NoSymbol, None, None, TRUE, FALSE)
                /\ UNCHANGED faults
        /\ UNCHANGED <<today, ledger_vars, orders, scan_idx, is_active>>

\* POST /start
Start ==
    \E symbols \in WatchLists, pv \in PortfolioValues, login_ok \in BOOLEAN :
        /\ LoopIdle
        /\ IF is_trading
           THEN /\ result' = Call("start", NoSymbol, None, None, FALSE, FALSE)
                /\ UNCHANGED <<logged_in, is_trading, watched_symbols, portfolio_value,
                               trading_task, faults>>
           ELSE IF ~logged_in /\ ~login_ok
           THEN /\ faults < MaxFaults
                /\ faults' = faults + 1
                /\ result' = Call("start", NoSymbol, None, None, FALSE, TRUE)
                /\ UNCHANGED <<logged_in, is_trading, watched_symbols, portfolio_value,
                               trading_task>>
           ELSE /\ logged_in' = TRUE
                /\ watched_symbols' = symbols
                /\ portfolio_value' = pv
                /\ is_trading' = TRUE
                /\ trading_task' = "created"
                /\ result' = Call("start", NoSymbol, None, None, TRUE, FALSE)
                /\ UNCHANGED faults
        /\ UNCHANGED <<today, ledger_vars, orders, scan_idx, is_active>>

\* POST /stop
Stop ==
    \E o \in [Keys(positions) -> CloseOutcomes] :
        /\ LoopIdle
        /\ IF is_trading
           THEN LET r == close_all_positions(World, o)
                IN  /\ WithinBounds(r.w)
                    /\ is_trading' = FALSE
                    /\ trading_task' = "cancelled"
                    /\ SetWorld(r.w)
                    /\ result' = Call("stop", NoSymbol, None, None, TRUE, r.raised)
           ELSE /\ result' = Call("stop", NoSymbol, None, None, FALSE, FALSE)
                /\ UNCHANGED <<is_trading, trading_task, ledger_vars, orders, faults>>
        /\ UNCHANGED <<today, logged_in, watched_symbols, portfolio_value, scan_idx,
                       is_active>>

LoopWake_ends_after_error ==
    \E hour \in Hours :
        /\ trading_task \in {"created", "sleeping", "backoff"}
        /\ IF ~is_trading \/ trading_task = "backoff"
           THEN trading_task' = "finished" /\ scan_idx' = 0
           ELSE IF hour >= MARKET_OPEN_HOUR /\ hour < MARKET_CLOSE_HOUR
                   /\ Len(watched_symbols) > 0
           THEN trading_task' = "running" /\ scan_idx' = 1
           ELSE trading_task' = "sleeping" /\ scan_idx' = 0
        /\ UNCHANGED <<today, ledger_vars, orders, logged_in, is_trading, watched_symbols,
                       portfolio_value, is_active, faults, result>>

\* trading_loop: the task starts, or its sleep ends, and a new iteration begins
LoopWake ==
    \E hour \in Hours :
        /\ trading_task \in {"created", "sleeping", "backoff"}
        /\ IF ~is_trading
           THEN trading_task' = "finished" /\ scan_idx' = 0
           ELSE IF hour >= MARKET_OPEN_HOUR /\ hour < MARKET_CLOSE_HOUR
                   /\ Len(watched_symbols) > 0
           THEN trading_task' = "running" /\ scan_idx' = 1
           ELSE trading_task' = "sleeping" /\ scan_idx' = 0
        /\ UNCHANGED <<today, ledger_vars, orders, logged_in, is_trading, watched_symbols,
                       portfolio_value, is_active, faults, result>>

NextSymbol ==
    IF scan_idx < Len(watched_symbols)
    THEN trading_task' = "running" /\ scan_idx' = scan_idx + 1
    ELSE trading_task' = "sleeping" /\ scan_idx' = 0

\* trading_loop, one symbol of "for symbol in self.watched_symbols": the
\* volatility index is above the threshold and the symbol is skipped
ScanVolatile ==
    \E vix \in VolatileVix :
        /\ trading_task = "running"
        /\ vix > VIX_THRESHOLD
        /\ NextSymbol
        /\ result' = Call("scan_volatile", watched_symbols[scan_idx], None, None,
                          FALSE, FALSE)
        /\ UNCHANGED <<today, ledger_vars, orders, logged_in, is_trading, watched_symbols,
                       portfolio_value, is_active, faults>>

\* ... analyze_stock raises: the except clause of the loop sleeps 60 seconds
ScanAnalysisFails ==
        /\ trading_task = "running"
        /\ \E vix \in CalmVix : ~(vix > VIX_THRESHOLD)
        /\ faults < MaxFaults
        /\ faults' = faults + 1
        /\ trading_task' = "backoff"
        /\ scan_idx' = 0
        /\ result' = Call("scan", watched_symbols[scan_idx], None, None, FALSE, TRUE)
        /\ UNCHANGED <<today, ledger_vars, orders, logged_in, is_trading, watched_symbols,
                       portfolio_value, is_active>>

scan_symbol_ignores_breaker(w, now, pv, symbol, v, current_price, venue_ok, db_ok) ==
    LET ct == can_trade(w.l, now, pv)
        w0 == [w EXCEPT !.l = ct.l]
        w1 == process_signals(w0, now, pv, symbol, v, current_price, venue_ok, db_ok)
        w2 == IF HasKey(w1.l.positions, symbol)
              THEN [w1 EXCEPT !.l = update_position_values(
                                        @, (symbol :> current_price)).l]
              ELSE w1
    IN  [w |-> w2, allowed |-> ct.ret]

\* lines 116-125 of trading_loop for one analysed symbol: process_signals if
\* can_trade allows, then the mark of the symbol if it is held
scan_symbol(w, now, pv, symbol, v, current_price, venue_ok, db_ok) ==
    LET ct == can_trade(w.l, now, pv)
        w0 == [w EXCEPT !.l = ct.l]
        w1 == IF ct.ret
              THEN process_signals(w0, now, pv, symbol, v, current_price, venue_ok, db_ok)
              ELSE w0
        w2 == IF HasKey(w1.l.positions, symbol)
              THEN [w1 EXCEPT !.l = update_position_values(
                                        @, (symbol :> current_price)).l]
              ELSE w1
    IN  [w |-> w2, allowed |-> ct.ret]

\* ... the symbol is analysed, traded if can_trade allows, and marked
ScanSymbol ==
    \E current_price \in Prices, v \in ScanVotes, venue_ok \in BOOLEAN,
       db_ok \in BOOLEAN :
        LET symbol == watched_symbols[scan_idx]
            r == scan_symbol(World, today, portfolio_value, symbol, v, current_price,
                             venue_ok, db_ok)
        IN  /\ trading_task = "running"
            /\ \E vix \in CalmVix : ~(vix > VIX_THRESHOLD)
            /\ (venue_ok /\ db_ok) \/ faults < MaxFaults
            /\ WithinBounds(r.w)
            /\ SetWorld(r.w)
            /\ NextSymbol
            /\ result' = Call("scan", symbol, None, None, r.allowed, FALSE)
            /\ UNCHANGED <<today, logged_in, is_trading, watched_symbols, portfolio_value,
                           is_active>>

Next ==
    \/ NextDay
    \/ Start
    \/ Stop
    \/ LoopWake
    \/ ScanVolatile
    \/ ScanAnalysisFails
    \/ ScanSymbol

Spec == Init /\ [][Next]_vars

-----------------------------------------------------------------------------
(* Trader *)

\* what class PositionManager defines; any other attribute raises AttributeError
PositionManagerAttrs ==
    {"positions", "daily_pnl", "last_reset", "reset_daily_metrics", "can_trade",
     "calculate_position_size", "add_position", "close_position",
     "get_active_positions", "update_position_values"}

\* the keyword arguments add_position accepts besides its three parameters
AddPositionKeywords == {}

TradeTypes == {"BUY", "SELL", "HOLD"}
TraderQuantities == {0, 10}

\* Trader._validate_trade; the lookup of a missing method raises inside the
\* try, and the except clause returns False
validate_trade(l, symbol, trade_type, quantity) ==
    IF trade_type \notin {"BUY", "SELL"} THEN FALSE
    ELSE IF quantity <= 0 THEN FALSE
    ELSE IF trade_type = "SELL"
    THEN IF "get_position" \notin PositionManagerAttrs THEN FALSE
         ELSE HasKey(l.positions, symbol)
              /\ ~(GetItem(l.positions, symbol).quantity < quantity)
    ELSE TRUE

\* sum of entry_price * quantity, the exposure the risk gate asks the ledger for
RECURSIVE entry_exposure(_, _)
entry_exposure(d, i) ==
    IF i > Len(d) THEN 0 ELSE d[i].entry_price * d[i].quantity + entry_exposure(d, i + 1)

\* Trader._check_risk_limits; can_trade may reset the daily metrics
check_risk_limits(l, current_date, pv, trade_value) ==
    IF trade_value > (pv * risk_per_trade_percent) \div 100
    THEN [l |-> l, ret |-> FALSE]
    ELSE LET ct == can_trade(l, current_date, pv)
         IN  IF ~ct.ret THEN [l |-> ct.l, ret |-> FALSE]
             ELSE IF "get_total_exposure" \notin PositionManagerAttrs
             THEN [l |-> ct.l, ret |-> FALSE]
             ELSE [l |-> ct.l,
                   ret |-> ~(entry_exposure(ct.l.positions, 1) + trade_value
                               > (pv * MAX_POSITION_SIZE_PERCENT) \div 100)]

\* Trader.execute_trade; price is None when get_stock_price raises.  Every
\* failure is re-raised to the caller.
trader_execute_trade(w, current_date, active, pv, symbol, trade_type, quantity, price, venue_ok, db_ok) ==
    IF ~active THEN [w |-> w, raised |-> TRUE]
    ELSE IF ~validate_trade(w.l, symbol, trade_type, quantity)
    THEN [w |-> w, raised |-> TRUE]
    ELSE IF price = None THEN [w |-> [w EXCEPT !.faults = @ + 1], raised |-> TRUE]
    ELSE LET rk == check_risk_limits(w.l, current_date, pv, Val(price) * quantity)
             w0 == [w EXCEPT !.l = rk.l]
             w1 == automation_execute_trade(w0, symbol, quantity, trade_type, venue_ok)
         IN  IF ~rk.ret THEN [w |-> w0, raised |-> TRUE]
             ELSE IF ~venue_ok THEN [w |-> w1, raised |-> TRUE]
             ELSE IF trade_type = "BUY"
             THEN IF {"stop_loss", "target"} \subseteq AddPositionKeywords
                  THEN [w |-> w_add_position(w1, current_date, symbol, Val(price),
                                             quantity, db_ok),
                        raised |-> ~db_ok]
                  ELSE [w |-> w1, raised |-> TRUE]
             ELSE [w |-> w_close_position(w1, symbol, Val(price), db_ok),
                   raised |-> ~db_ok]

\* Trader.update_trailing_stops, for the first entry of positions.items(): a
\* position holds neither 'stop_loss' nor 'target', so reading either raises
\* KeyError, which the except clause around the loop logs; the iteration ends.
update_trailing_stops(w, current_date, active, pv, price, venue_ok, db_ok) ==
    IF Len(w.l.positions) = 0 THEN w
    ELSE LET position == w.l.positions[1]
         IN  IF price = None THEN [w EXCEPT !.faults = @ + 1]
             ELSE IF "stop_loss" \notin DOMAIN position THEN w
             ELSE IF Val(price) > position.entry_price
                     /\ (Val(price) * (100 - trailing_sl_percent)) \div 100
                            > position.stop_loss
                     /\ "update_stop_loss" \notin PositionManagerAttrs
             THEN w
             ELSE IF Val(price) <= position.stop_loss \/ Val(price) >= position.target
             THEN trader_execute_trade(w, current_date, active, pv, position.symbol,
                                       "SELL", position.quantity, price, venue_ok,
                                       db_ok).w
             ELSE w

\* Trader.close_all_positions: the first failing execute_trade ends the loop
\* and is re-raised
trader_close_all_positions(w, current_date, active, pv, price, venue_ok, db_ok) ==
    IF Len(w.l.positions) = 0 THEN [w |-> w, raised |-> FALSE]
    ELSE LET position == w.l.positions[1]
             r == trader_execute_trade(w, current_date, active, pv, position.symbol,
                                       "SELL", position.quantity, price, venue_ok, db_ok)
         IN  [w |-> r.w, raised |-> TRUE]

OptionalPrices == {Some(p) : p \in Prices} \cup {None}

\* Trader.initialize: the portfolio value is stored before the login is tried
TInitialize ==
    \E pv \in PortfolioValues, login_ok \in BOOLEAN :
        /\ portfolio_value' = pv
        /\ IF logged_in \/ login_ok
           THEN /\ logged_in' = TRUE
                /\ is_active' = TRUE
                /\ UNCHANGED faults
                /\ result' = Call("initialize", NoSymbol, None, None, TRUE, FALSE)
           ELSE /\ faults < MaxFaults
                /\ faults' = faults + 1
                /\ UNCHANGED <<logged_in, is_active>>
                /\ result' = Call("initialize", NoSymbol, None, None, FALSE, FALSE)
        /\ UNCHANGED <<today, ledger_vars, orders, is_trading, watched_symbols,
                       trading_task, scan_idx>>

TExecuteTrade ==
    \E symbol \in Symbols, trade_type \in TradeTypes, quantity \in TraderQuantities,
       price \in OptionalPrices, venue_ok \in BOOLEAN, db_ok \in BOOLEAN :
        LET r == trader_execute_trade(World, today, is_active, portfolio_value, symbol,
                                      trade_type, quantity, price, venue_ok, db_ok)
        IN  /\ WithinBounds(r.w)
            /\ SetWorld(r.w)
            /\ result' = Call("execute_trade", symbol, None, None, FALSE, r.raised)
            /\ UNCHANGED <<today, system_vars, is_active>>

\* one call of update_trailing_stops, as made by monitor_positions
TUpdateTrailingStops ==
    \E price \in OptionalPrices, venue_ok \in BOOLEAN, db_ok \in BOOLEAN :
        LET w == update_trailing_stops(World, today, is_active, portfolio_value, price,
                                       venue_ok, db_ok)
        IN  /\ WithinBounds(w)
            /\ SetWorld(w)
            /\ result' = Call("update_trailing_stops",
                              IF Len(positions) = 0 THEN NoSymbol ELSE positions[1].symbol,
                              price, None, FALSE, FALSE)
            /\ UNCHANGED <<today, system_vars, is_active>>

TCloseAllPositions ==
    \E price \in OptionalPrices, venue_ok \in BOOLEAN, db_ok \in BOOLEAN :
        LET r == trader_close_all_positions(World, today, is_active, portfolio_value,
                                            price, venue_ok, db_ok)
        IN  /\ WithinBounds(r.w)
            /\ SetWorld(r.w)
            /\ result' = Call("close_all_positions", NoSymbol, None, None, FALSE, r.raised)
            /\ UNCHANGED <<today, system_vars, is_active>>

\* Trader.stop
TStop ==
    /\ is_active' = FALSE
    /\ result' = Call("trader_stop", NoSymbol, None, None, FALSE, FALSE)
    /\ UNCHANGED <<today, ledger_vars, orders, system_vars, faults>>

\* A Trader and the ledger it owns.  execute_trade never fills a BUY, so a
\* position enters the ledger only through position_manager.add_position.
TraderNext ==
    \/ NextDay
    \/ LAddPosition
    \/ TInitialize
    \/ TExecuteTrade
    \/ TUpdateTrailingStops
    \/ TCloseAllPositions
    \/ TStop

TraderSpec == Init /\ [][TraderNext]_vars

-----------------------------------------------------------------------------
(* Properties of the ledger, checked under LedgerSpec *)

\* C1: after any sequence of add_position and close_position calls the ledger
\* holds at most one open position per symbol.
C1_OnePositionPerSymbol ==
    \A i, j \in 1..Len(positions) :
        positions[i].symbol = positions[j].symbol => i = j

\* add_position has just been called for a symbol that was already held: the
\* sink holds two BUY records in a row for it
C1_ReopenedHeldSymbol ==
    /\ result.op = "add_position"
    /\ ~result.raised
    /\ Len(trades) >= 2
    /\ trades[Len(trades)] = [symbol |-> result.symbol, trade_type |-> "BUY"]
    /\ trades[Len(trades) - 1] = trades[Len(trades)]
    /\ HasKey(positions, result.symbol)

\* C2: add_position for a symbol that already has an open position fails: the
\* existing position's entry_price, quantity and entry_time stay as they were
\* and no second BUY record is emitted.
C2_OpenOnHeldSymbolFails ==
    [][(/\ result'.op = "add_position"
        /\ HasKey(positions, result'.symbol)
        /\ LAddPosition)
       => LET s == result'.symbol
          IN  /\ HasKey(positions', s)
              /\ GetItem(positions', s).entry_price = GetItem(positions, s).entry_price
              /\ GetItem(positions', s).quantity = GetItem(positions, s).quantity
              /\ GetItem(positions', s).entry_time = GetItem(positions, s).entry_time
              /\ trades' = trades]_vars

\* C4: can_trade(portfolio_value) returns false if and only if
\* daily_pnl <= -(portfolio_value * MAX_DAILY_LOSS_PERCENT / 100); with a
\* portfolio of 100000, -999 gives true, -1001 gives false and -1000 gives false.
C4_CanTradeThreshold ==
    /\ result.op = "can_trade"
       => (~result.ok <=> daily_pnl <= -max_daily_loss(Val(result.price)))
    /\ can_trade_test([daily_pnl |-> -999], 100000)
    /\ ~can_trade_test([daily_pnl |-> -1001], 100000)
    /\ ~can_trade_test([daily_pnl |-> -1000], 100000)

\* can_trade has just returned false with the day's loss exactly at the limit
C4_RefusedAtTheLimit ==
    /\ result.op = "can_trade"
    /\ ~result.ok
    /\ daily_pnl < 0
    /\ daily_pnl = -max_daily_loss(Val(result.price))

\* C5: reset_daily_metrics and can_trade zero daily_pnl and move last_reset to
\* the current date when that date is past last_reset, and on the same date
\* they leave both unchanged, whatever has been realized since the reset.
C5_ResetOncePerDay ==
    [][(/\ result'.op \in {"reset_daily_metrics", "can_trade"}
        /\ LResetDailyMetrics \/ LCanTrade)
       => IF today > last_reset
          THEN daily_pnl' = 0 /\ last_reset' = today
          ELSE daily_pnl' = daily_pnl /\ last_reset' = last_reset]_vars

\* a reset call on a day that was already reset, after which a close realized
\* a result, has left that result in place
C5_SecondResetKeptPnl ==
    /\ result.op \in {"reset_daily_metrics", "can_trade"}
    /\ today > 0
    /\ last_reset = today
    /\ daily_pnl # 0

C7_CloseUnheldSymbol ==
    [][(/\ result'.op = "close_position"
        /\ ~HasKey(positions, result'.symbol)
        /\ LClosePosition)
       => /\ result'.ret = Some(0)
          /\ ~result'.raised
          /\ positions' = positions
          /\ daily_pnl' = daily_pnl
          /\ trades' = trades]_vars

\* close_position("AAA") has just been called while only BBB was open
C7_ClosedUnheldAAA ==
    /\ result.op = "close_position"
    /\ result.symbol = "AAA"
    /\ result.ret = Some(0)
    /\ trades = <<[symbol |-> "BBB", trade_type |-> "BUY"]>>
    /\ Keys(positions) = {"BBB"}

-----------------------------------------------------------------------------
(* Properties of the session, checked under Spec *)

\* what can_trade(portfolio_value) would answer now
CanTradeNow == can_trade(Ledger, today, portfolio_value).ret

\* C3: the daily circuit breaker latches: once a scan has found can_trade
\* false, no later operation on the same date (a profitable close, the
\* close-all of stop, a restart) makes can_trade answer true again.
C3_BreakerLatches ==
    [][(result.op = "scan" /\ ~result.raised /\ ~result.ok /\ today' = today)
       => ~CanTradeNow']_vars

\* C8: when stop returns and the venue filled every SELL (no collaborator call
\* of the stop failed), the ledger holds no open position, however many
\* positions were open.
C8_StopClosesEveryPosition ==
    [][(Stop /\ is_trading /\ faults' = faults) => positions' = <<>>]_vars

\* C9: close-all is best-effort per symbol: whatever subset of the open
\* positions fails to close, every other position whose price fetch, order and
\* record succeed is closed.
C9_CloseAllBestEffort ==
    \A o \in [Keys(positions) -> CloseOutcomes] :
        \A s \in Keys(positions) :
            (o[s].price # None /\ o[s].venue_ok /\ o[s].db_ok)
            => ~HasKey(close_all_positions(World, o).w.l.positions, s)

-----------------------------------------------------------------------------
(* Properties of the Trader, checked under TraderSpec *)

\* the stop and the target Trader.execute_trade assigns a position it opens
StopBreached(position, price) ==
    100 * price <= position.entry_price * (100 - trailing_sl_percent)

TargetReached(position, price) ==
    100 * price >= position.entry_price * (100 + target_profit_percent)

\* C10: when the watcher of an active trader fetches, for an open position, a
\* price at or below its stop or at or above its target, and no collaborator
\* call fails, the position is removed from the ledger in that iteration.
C10_WatcherForcesExit ==
    [][(/\ TUpdateTrailingStops
        /\ is_active
        /\ faults' = faults
        /\ Len(positions) > 0
        /\ result'.price # None
        /\ \/ StopBreached(positions[1], Val(result'.price))
           \/ TargetReached(positions[1], Val(result'.price)))
       => ~HasKey(positions', positions[1].symbol)]_vars

\* C11: for a held position the stop never decreases: when the watcher of an
\* active trader fetches a price above entry_price and the position stays
\* open, the position carries a stop of at least price * (1 - trailing_sl_percent).
C11_TrailingStopRaised ==
    [][(/\ result'.op = "update_trailing_stops"
        /\ is_active
        /\ faults' = faults
        /\ Len(positions) > 0
        /\ result'.price # None
        /\ Val(result'.price) > positions[1].entry_price
        /\ HasKey(positions', positions[1].symbol)
        /\ TUpdateTrailingStops)
       => LET p == GetItem(positions', positions[1].symbol)
          IN  /\ "stop_loss" \in DOMAIN p
              /\ 100 * p.stop_loss >= Val(result'.price) * (100 - trailing_sl_percent)]_vars

\* the three conditions of the risk gate, on the ledger as can_trade leaves it
RiskGateConditions(l, current_date, pv, trade_value) ==
    /\ 100 * trade_value <= pv * risk_per_trade_percent
    /\ can_trade(l, current_date, pv).ret
    /\ 100 * (entry_exposure(l.positions, 1) + trade_value)
           <= pv * MAX_POSITION_SIZE_PERCENT

\* C12: _check_risk_limits approves a trade if and only if its value is within
\* the per-trade limit, can_trade is true and the exposure with the trade
\* added is within the cap.
C12_RiskGateApproves ==
    is_active
    => \A price \in Prices, quantity \in Quantities :
           check_risk_limits(Ledger, today, portfolio_value, price * quantity).ret
           <=> RiskGateConditions(Ledger, today, portfolio_value, price * quantity)

\* C13: an execute_trade that is rejected sends no order and leaves positions,
\* daily_pnl and last_reset exactly as they were.
C13_RejectionHasNoEffect ==
    [][(/\ result'.op = "execute_trade"
        /\ result'.raised
        /\ is_active
        /\ faults' = faults
        /\ TExecuteTrade)
       => /\ orders' = orders
          /\ positions' = positions
          /\ daily_pnl' = daily_pnl
          /\ last_reset' = last_reset]_vars

-----------------------------------------------------------------------------
(* The exposure of a running session, under Spec *)

\* C14: in every state of a running session the total exposure (the sum of
\* entry_price * quantity over the open positions) is at most
\* portfolio_value * MAX_POSITION_SIZE_PERCENT / 100.
C14_ExposureWithinCap ==
    is_trading
    => 100 * entry_exposure(positions, 1) <= portfolio_value * MAX_POSITION_SIZE_PERCENT

-----------------------------------------------------------------------------
(* SignalsSpec: process_signals of a started session, applied to any analysis *)

\* the call process_signals(symbol, analysis) and what the venue and the sink
\* did during it
SignalsCall(symbol, v, current_price, venue_ok, db_ok) ==
    [op |-> "process_signals", symbol |-> symbol, votes |-> v,
     price |-> Some(current_price), venue_ok |-> venue_ok, db_ok |-> db_ok]

\* a strong buy, a weak buy, a tie, a weak sell, a strong sell
SignalVotes == {v \in Votes : v.buy + v.sell = 6 /\ v.buy \in 1..5}

\* the sink accepts every row here
ProcessSignals ==
    \E symbol \in Symbols, v \in SignalVotes, current_price \in Prices,
       venue_ok \in BOOLEAN :
        LET w == process_signals(World, today, portfolio_value, symbol, v,
                                 current_price, venue_ok, TRUE)
        IN  /\ is_trading
            /\ WithinBounds(w)
            /\ Len(w.orders) <= MaxLedgerTrades
            /\ SetWorld(w)
            /\ result' = SignalsCall(symbol, v, current_price, venue_ok, TRUE)
            /\ UNCHANGED <<today, system_vars, is_active>>

SignalsNext ==
    \/ Start
    \/ ProcessSignals

SignalsSpec == Init /\ [][SignalsNext]_vars

\* the conditions of the scan cycle for a BUY and for a SELL of symbol s
BuyConditions(s, v, current_price) ==
    /\ 10 * Max(v.buy, v.sell) >= MIN_SIGNAL_STRENGTH_TENTHS * total_signals
    /\ v.buy > v.sell
    /\ ~HasKey(positions, s)
    /\ (portfolio_value * MAX_POSITION_SIZE_PERCENT) \div (100 * current_price) > 0

SellConditions(s, v) ==
    /\ 10 * Max(v.buy, v.sell) >= MIN_SIGNAL_STRENGTH_TENTHS * total_signals
    /\ v.sell > v.buy
    /\ HasKey(positions, s)

\* C15: in the scan cycle an order that is placed is a BUY of the computed size
\* under the BUY conditions (strength >= MIN_SIGNAL_STRENGTH, direction +1, no
\* open position, size > 0) or a SELL of the full held quantity under the SELL
\* conditions (strength >= MIN_SIGNAL_STRENGTH, direction -1, a position
\* exists); in every other case no order is placed and no position is opened
\* or closed.
C15_ScanOrderRules ==
    [][(result'.op = "process_signals" /\ ProcessSignals)
       => LET s == result'.symbol
              v == result'.votes
              current_price == Val(result'.price)
          IN  /\ orders' # orders
                 => \/ /\ BuyConditions(s, v, current_price)
                       /\ orders' = Append(orders,
                              [symbol |-> s, trade_type |-> "BUY",
                               quantity |-> (portfolio_value * MAX_POSITION_SIZE_PERCENT)
                                                \div (100 * current_price)])
                    \/ /\ SellConditions(s, v)
                       /\ orders' = Append(orders,
                              [symbol |-> s, trade_type |-> "SELL",
                               quantity |-> GetItem(positions, s).quantity])
              /\ ~(BuyConditions(s, v, current_price) \/ SellConditions(s, v))
                 => /\ orders' = orders
                    /\ faults' = faults
                    /\ positions' = positions
                    /\ trades' = trades
                    /\ daily_pnl' = daily_pnl]_vars

\* a strong sell signal for a held symbol has just sold the whole position
C15_SoldOnStrongSell ==
    /\ result.op = "process_signals"
    /\ result.votes.sell >= 5
    /\ Len(orders) >= 2
    /\ orders[Len(orders)].symbol = result.symbol
    /\ orders[Len(orders)].trade_type = "SELL"
    /\ ~HasKey(positions, result.symbol)

\* C20: when the venue fails or rejects the order of a scan, BUY or SELL, the
\* positions, daily_pnl and the trade records are unchanged.
C20_VenueFailureLeavesLedger ==
    [][(result'.op = "process_signals" /\ ~result'.venue_ok /\ ProcessSignals)
       => /\ positions' = positions
          /\ daily_pnl' = daily_pnl
          /\ last_reset' = last_reset
          /\ trades' = trades
          /\ orders' = orders]_vars

\* the venue has just rejected the SELL of a held symbol on a strong sell signal
C20_RejectedSell ==
    /\ result.op = "process_signals"
    /\ ~result.venue_ok
    /\ result.votes.sell >= 5
    /\ HasKey(positions, result.symbol)
    /\ faults > 0

-----------------------------------------------------------------------------
(* TechnicalAnalyzer.generate_signal *)

\* a missing value read as zero
Gt_missing_is_zero(a, b) ==
    (IF a = None THEN 0 ELSE Val(a)) > (IF b = None THEN 0 ELSE Val(b))

\* comparisons of pandas values; a missing value (NaN) is None and compares
\* False with everything
Gt(a, b) == a # None /\ b # None /\ Val(a) > Val(b)
Lt(a, b) == a # None /\ b # None /\ Val(a) < Val(b)
Le(a, b) == a # None /\ b # None /\ Val(a) <= Val(b)

BuyVote == [buy |-> 1, sell |-> 0]
SellVote == [buy |-> 0, sell |-> 1]
NoVote == [buy |-> 0, sell |-> 0]

\* if cond: buy_signals += 1 else: sell_signals += 1
Vote(cond) == IF cond THEN BuyVote ELSE SellVote

\* the momentum category, lines 78-86
rsi_vote(row) ==
    IF Le(Some(30), row.RSI) /\ Le(row.RSI, Some(70))
    THEN Vote(Gt(row.RSI, Some(50)))
    ELSE IF Lt(row.RSI, Some(30)) THEN BuyVote ELSE SellVote

\* the volume category, lines 101-105; prev_close is data['Close'].iloc[-2]
volume_vote(row) ==
    IF Gt(row.Volume, row.Volume_SMA)
    THEN Vote(Gt(row.Close, row.prev_close))
    ELSE NoVote

signal_of(votes) ==
    LET buy_signals == votes[1].buy + votes[2].buy + votes[3].buy + votes[4].buy
                       + votes[5].buy + votes[6].buy
        sell_signals == votes[1].sell + votes[2].sell + votes[3].sell + votes[4].sell
                        + votes[5].sell + votes[6].sell
    IN  [direction |-> direction([buy |-> buy_signals, sell |-> sell_signals]),
         strength |-> [num |-> Max(buy_signals, sell_signals), den |-> total_signals],
         buy_signals |-> buy_signals,
         sell_signals |-> sell_signals]

generate_signal_rsi_neutral(row) ==
    signal_of(<<Vote(Gt(row.EMA_9, row.SMA_20)),
                Vote(Gt(row.SMA_20, row.SMA_50)),
                IF Le(Some(30), row.RSI) /\ Le(row.RSI, Some(70)) THEN NoVote
                ELSE IF Lt(row.RSI, Some(30)) THEN BuyVote ELSE SellVote,
                Vote(Gt(row.MACD, row.MACD_Signal)),
                Vote(Gt(row.Close, row.BB_Middle)),
                volume_vote(row)>>)

\* generate_signal on the last row of the analysed data
generate_signal(row) ==
    signal_of(<<Vote(Gt(row.EMA_9, row.SMA_20)),
                Vote(Gt(row.SMA_20, row.SMA_50)),
                rsi_vote(row),
                Vote(Gt(row.MACD, row.MACD_Signal)),
                Vote(Gt(row.Close, row.BB_Middle)),
                volume_vote(row)>>)

\* last rows: every outcome of every comparison, equal values and missing ones
Rows ==
    [EMA_9 : {None, Some(19), Some(20), Some(21)},
     SMA_20 : {Some(20)},
     SMA_50 : {Some(19), Some(21)},
     RSI : {None, Some(25), Some(30), Some(50), Some(55), Some(70), Some(75)},
     MACD : {Some(-1), Some(1)},
     MACD_Signal : {Some(0)},
     Close : {Some(99), Some(101)},
     prev_close : {Some(100)},
     BB_Middle : {Some(100)},
     Volume : {None, Some(900), Some(1100)},
     Volume_SMA : {Some(1000)}]

GenerateSignal ==
    \E row \in Rows :
        /\ result' = [op |-> "generate_signal", row |-> row,
                      signal |-> generate_signal(row)]
        /\ UNCHANGED <<today, ledger_vars, orders, system_vars, is_active, faults>>

GenerateSpec == Init /\ [][GenerateSignal]_vars

\* C16: direction is +1 iff buy votes > sell votes, -1 iff sell votes > buy
\* votes and 0 on a tie; strength is max(buy, sell) / 7, lies in [0, 1], and is
\* at most 6/7 when the volume vote is skipped.
C16_DirectionAndStrength ==
    result.op = "generate_signal"
    => LET g == result.signal
       IN  /\ g.direction = 1 <=> g.buy_signals > g.sell_signals
           /\ g.direction = -1 <=> g.sell_signals > g.buy_signals
           /\ g.direction = 0 <=> g.buy_signals = g.sell_signals
           /\ g.direction \in {-1, 0, 1}
           /\ g.strength.den = 7
           /\ g.strength.num = Max(g.buy_signals, g.sell_signals)
           /\ 0 <= g.strength.num /\ g.strength.num <= g.strength.den
           /\ ~Gt(result.row.Volume, result.row.Volume_SMA) => g.strength.num <= 6

\* generate_signal has just returned an exact tie, three votes each way
C16_TieHasNoDirection ==
    /\ result.op = "generate_signal"
    /\ result.signal.buy_signals = 3
    /\ result.signal.sell_signals = 3
    /\ result.signal.direction = 0

\* the row of the scenario: every non-volume category bullish, volume below
\* its average
BullishQuietRow ==
    [EMA_9 |-> Some(21), SMA_20 |-> Some(20), SMA_50 |-> Some(19), RSI |-> Some(55),
     MACD |-> Some(1), MACD_Signal |-> Some(0), Close |-> Some(101),
     prev_close |-> Some(100), BB_Middle |-> Some(100), Volume |-> Some(900),
     Volume_SMA |-> Some(1000)]

\* C17: the five non-volume categories cast exactly one vote each and the
\* volume category one vote only when volume > its average, so buy + sell is 5
\* when the volume vote is skipped and 6 otherwise; all five bullish with low
\* volume gives 5 buy votes, 0 sell votes, strength 5/7, direction +1.
C17_VotesCast ==
    /\ result.op = "generate_signal"
       => /\ result.signal.buy_signals + result.signal.sell_signals
               = IF Gt(result.row.Volume, result.row.Volume_SMA) THEN 6 ELSE 5
          /\ result.signal.buy_signals >= 0
          /\ result.signal.sell_signals >= 0
    /\ generate_signal(BullishQuietRow)
           = [direction |-> 1, strength |-> [num |-> 5, den |-> 7],
              buy_signals |-> 5, sell_signals |-> 0]

\* generate_signal has just been applied to the row of the scenario
C17_ScenarioScored ==
    /\ result.op = "generate_signal"
    /\ result.row = BullishQuietRow
    /\ result.signal.buy_signals = 5
    /\ result.signal.sell_signals = 0

-----------------------------------------------------------------------------
(* TechnicalAnalyzer.calculate_supertrend *)

MaxBars == 3

\* a bar with the bands computed for it: lower and upper are basic_lowerband
\* and basic_upperband, None (NaN) while the ATR has too few bars
Bands ==
    {[lower |-> Some(9), upper |-> Some(11)], [lower |-> Some(7), upper |-> Some(13)],
     [lower |-> None, upper |-> None]}

Bars == {[Close |-> Some(c), lower |-> b.lower, upper |-> b.upper] :
            c \in {6, 9, 10, 11, 14}, b \in Bands}

supertrend_step_ge(previous, bar, prior) ==
    IF Gt(bar.Close, prior.upper) \/ bar.Close = prior.upper
    THEN [supertrend |-> bar.lower, direction |-> Some(1)]
    ELSE IF Lt(bar.Close, prior.lower) \/ bar.Close = prior.lower
    THEN [supertrend |-> bar.upper, direction |-> Some(-1)]
    ELSE previous

\* the body of "for i in range(1, len(data.index))": previous is entry i-1 of
\* the two series, prior is bar i-1
supertrend_step(previous, bar, prior) ==
    IF Gt(bar.Close, prior.upper)
    THEN [supertrend |-> bar.lower, direction |-> Some(1)]
    ELSE IF Lt(bar.Close, prior.lower)
    THEN [supertrend |-> bar.upper, direction |-> Some(-1)]
    ELSE previous

\* the series supertrend and direction, entry by entry, for the first n bars;
\* entry 1 (index 0) is never assigned and stays NaN
RECURSIVE supertrend_series(_, _)
supertrend_series(data, n) ==
    IF n = 0 THEN <<>>
    ELSE IF n = 1 THEN <<[supertrend |-> None, direction |-> None]>>
    ELSE LET before == supertrend_series(data, n - 1)
         IN  Append(before, supertrend_step(before[n - 1], data[n], data[n - 1]))

calculate_supertrend(data) == supertrend_series(data, Len(data))

\* the data of the last calculate_supertrend call
AnalysedData == IF result.op = "calculate_supertrend" THEN result.data ELSE <<>>

\* a new bar arrives and the supertrend of the grown data is computed
CalculateSupertrend ==
    \E bar \in Bars :
        /\ Len(AnalysedData) < MaxBars
        /\ result' = [op |-> "calculate_supertrend",
                      data |-> Append(AnalysedData, bar),
                      series |-> calculate_supertrend(Append(AnalysedData, bar))]
        /\ UNCHANGED <<today, ledger_vars, orders, system_vars, is_active, faults>>

SupertrendSpec == Init /\ [][CalculateSupertrend]_vars

\* C18: for every bar i >= 1: if close[i] > basic_upper[i-1] the line is
\* basic_lower[i] with direction up; if close[i] < basic_lower[i-1] the line is
\* basic_upper[i] with direction down; otherwise, a close equal to either
\* prior band included, line and direction are those of bar i-1; line[0] is
\* undefined.
C18_SupertrendRecurrence ==
    result.op = "calculate_supertrend"
    => LET data == result.data
           series == result.series
       IN  /\ Len(series) = Len(data)
           /\ series[1].supertrend = None
           /\ \A i \in 2..Len(data) :
                  LET above == /\ data[i - 1].upper # None
                               /\ Val(data[i].Close) > Val(data[i - 1].upper)
                      below == /\ data[i - 1].lower # None
                               /\ Val(data[i].Close) < Val(data[i - 1].lower)
                  IN  /\ above => /\ series[i].supertrend = data[i].lower
                                  /\ series[i].direction = Some(1)
                      /\ (~above /\ below) => /\ series[i].supertrend = data[i].upper
                                              /\ series[i].direction = Some(-1)
                      /\ (~above /\ ~below) => series[i] = series[i - 1]

\* after an upward breach set the line, a close equal to the prior upper band
\* has carried the line and the direction forward
C18_CarriedOnEqualClose ==
    /\ result.op = "calculate_supertrend"
    /\ Len(result.data) = 3
    /\ result.series[2].direction = Some(1)
    /\ result.series[2].supertrend # None
    /\ result.data[3].Close = result.data[2].upper
    /\ result.series[3] = result.series[2]
    /\ result.data[3].lower # result.series[3].supertrend

-----------------------------------------------------------------------------
(* The scan loop under its scheduling *)

\* the session within one calendar day
DayNext ==
    \/ Start
    \/ Stop
    \/ LoopWake
    \/ ScanVolatile
    \/ ScanAnalysisFails
    \/ ScanSymbol

\* asyncio resumes trading_loop when its sleep ends and runs it up to the
\* next sleep
FairSpec ==
    /\ Init
    /\ [][DayNext]_vars
    /\ WF_vars(LoopWake)
    /\ WF_vars(ScanVolatile \/ ScanAnalysisFails \/ ScanSymbol)

\* C19: an error inside a scan iteration never ends the loop: from the backoff
\* sleep of a session that is not stopped the loop starts another iteration,
\* and the loop is over only in a session that was stopped.
C19_LoopResumesAfterError ==
    /\ (trading_task = "backoff" /\ is_trading)
           ~> (trading_task \in {"running", "sleeping"} \/ ~is_trading)
    /\ [](trading_task \in {"finished", "cancelled"} => ~is_trading)

\* analyze_stock has just raised in a running session: the loop is in its
\* 60 second sleep
C19_BackingOff ==
    /\ trading_task = "backoff"
    /\ is_trading
    /\ result.op = "scan"
    /\ result.raised

-----------------------------------------------------------------------------
(* Opening and closing one symbol's position, under Spec *)

\* the orders of one side the venue filled for symbol s
CountOrders(o, s, trade_type) ==
    Cardinality({i \in 1..Len(o) : o[i].symbol = s /\ o[i].trade_type = trade_type})

\* C21: however the scan cycle and the close-all of stop are interleaved, a
\* held position is closed at most once: the venue is sent at most one SELL for
\* it and a step that adds its realized P&L to daily_pnl removes it; and no
\* position is added to the ledger once stop has begun its close-all.
C21_ClosedAtMostOnce ==
    [][/\ \A s \in Symbols :
              CountOrders(orders', s, "SELL") <= CountOrders(orders', s, "BUY")
       /\ (daily_pnl' # daily_pnl /\ last_reset' = last_reset)
          => Len(positions') < Len(positions)
       /\ ~is_trading => Keys(positions') \subseteq Keys(positions)]_vars

-----------------------------------------------------------------------------
(* MarksSpec: positions opened on a ledger and marked to market *)

MarksNext ==
    \/ LAddPosition
    \/ LUpdatePositionValues

MarksSpec == Init /\ [][MarksNext]_vars

\* the unrealized P&L the ledger holds, over every open position from entry i
\* on; a position that was never marked holds none
RECURSIVE SumUnrealized(_, _)
SumUnrealized(d, i) ==
    IF i > Len(d) THEN 0
    ELSE (IF d[i].unrealized_pnl = None THEN 0 ELSE Val(d[i].unrealized_pnl))
         + SumUnrealized(d, i + 1)

\* C22: update_position_values(priceMap) sets current_price and
\* unrealized_pnl = (current_price - entry_price) * quantity for every held
\* symbol present in priceMap, leaves the positions absent from it as they
\* were, and returns the sum of unrealized_pnl over every position the ledger
\* holds after the update.
C22_MarksAndAggregate ==
    [][(result'.op = "update_position_values" /\ LUpdatePositionValues)
       => LET current_prices == result'.current_prices
          IN  /\ Len(positions') = Len(positions)
              /\ \A i \in 1..Len(positions) :
                     IF positions[i].symbol \in DOMAIN current_prices
                     THEN LET current_price == current_prices[positions[i].symbol]
                          IN  positions'[i] =
                                  [positions[i] EXCEPT
                                      !.current_price = Some(current_price),
                                      !.unrealized_pnl =
                                          Some((current_price - positions[i].entry_price)
                                               * positions[i].quantity)]
                     ELSE positions'[i] = positions[i]
              /\ result'.ret = Some(SumUnrealized(positions', 1))]_vars

-----------------------------------------------------------------------------
(* SizingSpec: calculate_position_size applied to a portfolio value and a price *)

SizingPortfolioValues ==
    {1, 19, 20, 21, 39, 40, 399, 400, 401, 1000, 2199, 2200, 2201, 10000, 100000}

SizingPrices == {1, 2, 3, 7, 19, 20, 21, 50, 110}

CalculatePositionSize ==
    \E pv \in SizingPortfolioValues, current_price \in SizingPrices :
        /\ result' = [op |-> "calculate_position_size", portfolio_value |-> pv,
                      current_price |-> current_price,
                      ret |-> calculate_position_size(pv, current_price)]
        /\ UNCHANGED <<today, ledger_vars, orders, system_vars, is_active, faults>>

SizingSpec == Init /\ [][CalculatePositionSize]_vars

\* C23: for positive portfolio values and prices calculate_position_size
\* returns floor(portfolio_value * MAX_POSITION_SIZE_PERCENT / 100 / price): the
\* largest quantity whose value is within the per-position cap, 0 when the cap
\* is below the price of one share.
C23_SizeIsFloorOfCap ==
    result.op = "calculate_position_size"
    => LET pv == result.portfolio_value
           price == result.current_price
           quantity == result.ret
       IN  /\ quantity >= 0
           /\ 100 * quantity * price <= pv * MAX_POSITION_SIZE_PERCENT
           /\ 100 * (quantity + 1) * price > pv * MAX_POSITION_SIZE_PERCENT
           /\ pv * MAX_POSITION_SIZE_PERCENT < 100 * price => quantity = 0

\* a portfolio whose cap (50) is below the price of one share (110) was sized
C23_CapBelowOneShare ==
    /\ result.op = "calculate_position_size"
    /\ result.portfolio_value = 1000
    /\ result.current_price = 110
    /\ result.ret = 0

-----------------------------------------------------------------------------
(* Symbols skipped by the scan cycle, under Spec *)

\* C24: when the analysis of one watched symbol has no bars, only that symbol
\* is skipped for the cycle: nothing is traded for it, the cycle goes on with
\* the next watched symbol, and the loop continues.
C24_OnlyThatSymbolSkipped ==
    [][(result'.op = "scan" /\ result'.raised /\ ScanAnalysisFails)
       => /\ UNCHANGED <<ledger_vars, orders>>
          /\ trading_task' \notin {"finished", "cancelled"}
          /\ scan_idx < Len(watched_symbols)
             => (trading_task' = "running" /\ scan_idx' = scan_idx + 1)]_vars

-----------------------------------------------------------------------------
(* ContextSpec: the scan cycle with the market context it fetches *)

\* what get_market_context returns: the context with its india_vix, or the
\* empty dict when a fetch raised
NoContext == <<>>

MarketContexts == {[india_vix |-> x] : x \in {20, 25, 26}} \cup {NoContext}

india_vix_missing_is_high(market_context) ==
    IF "india_vix" \in DOMAIN market_context THEN market_context.india_vix ELSE 100

\* market_context.get('india_vix', 0)
india_vix(market_context) ==
    IF "india_vix" \in DOMAIN market_context THEN market_context.india_vix ELSE 0

volatility_check_lt(market_context) ==
    IF india_vix(market_context) < VIX_THRESHOLD
    THEN IF "india_vix" \in DOMAIN market_context THEN "continue" ELSE "KeyError"
    ELSE "analyse"

\* lines 109-111 of trading_loop: above the threshold the warning reads
\* market_context['india_vix'] and the symbol is skipped
volatility_check(market_context) ==
    IF india_vix(market_context) > VIX_THRESHOLD
    THEN IF "india_vix" \in DOMAIN market_context THEN "continue" ELSE "KeyError"
    ELSE "analyse"

ContextCall(symbol, market_context, v, current_price, outcome) ==
    [op |-> "scan", symbol |-> symbol, market_context |-> market_context, votes |-> v,
     price |-> current_price, outcome |-> outcome]

\* trading_loop, one symbol of the for statement, the venue filling every order
\* and the sink accepting every row; contexts: what get_market_context may return
ScanInContexts(contexts) ==
    \E market_context \in contexts, current_price \in Prices, v \in ScanVotes :
        LET symbol == watched_symbols[scan_idx]
            outcome == volatility_check(market_context)
            r == scan_symbol(World, today, portfolio_value, symbol, v, current_price,
                             TRUE, TRUE)
        IN  /\ trading_task = "running"
            /\ result' = ContextCall(symbol, market_context, v, current_price, outcome)
            /\ CASE outcome = "continue" ->
                        /\ NextSymbol
                        /\ UNCHANGED <<ledger_vars, orders, faults>>
                 [] outcome = "KeyError" ->
                        /\ trading_task' = "backoff"
                        /\ scan_idx' = 0
                        /\ UNCHANGED <<ledger_vars, orders, faults>>
                 [] outcome = "analyse" ->
                        /\ WithinBounds(r.w)
                        /\ Len(r.w.orders) <= MaxLedgerTrades
                        /\ SetWorld(r.w)
                        /\ NextSymbol
            /\ UNCHANGED <<today, logged_in, is_trading, watched_symbols, portfolio_value,
                           is_active>>

ScanWithContext == ScanInContexts(MarketContexts)

\* the same step on a day when the index stays at 20
ScanCalmMarket == ScanInContexts({[india_vix |-> 20]})

ContextNext ==
    \/ Start
    \/ LoopWake
    \/ ScanWithContext

ContextSpec == Init /\ [][ContextNext]_vars

\* C25: when the volatility index fetched for a symbol is above 25 the scan
\* cycle skips the symbol: no order is placed, no position is opened or
\* closed, no error is raised, and the cycle goes on with the next symbol.
C25_VolatileSymbolSkipped ==
    [][(/\ result'.op = "scan"
        /\ "india_vix" \in DOMAIN result'.market_context
        /\ result'.market_context.india_vix > 25
        /\ ScanWithContext)
       => /\ UNCHANGED <<ledger_vars, orders, faults>>
          /\ result'.outcome # "KeyError"
          /\ IF scan_idx < Len(watched_symbols)
             THEN trading_task' = "running" /\ scan_idx' = scan_idx + 1
             ELSE trading_task' = "sleeping"]_vars

\* with the index at 26 the first symbol, held and with a strong sell signal,
\* was skipped and the cycle stands at the second symbol
C25_SkippedHeldSymbol ==
    /\ result.op = "scan"
    /\ result.market_context = [india_vix |-> 26]
    /\ result.votes.sell >= 5
    /\ HasKey(positions, result.symbol)
    /\ trading_task = "running"
    /\ scan_idx = 2


\* C30: when the volatility context cannot be fetched (get_market_context
\* returns the empty mapping) the scan cycle takes the index to be 0: the
\* symbol is not skipped, no error is raised by the volatility check, the
\* analysis proceeds and its signal is traded.
C30_MissingContextIsCalm ==
    [][(/\ result'.op = "scan"
        /\ result'.market_context = NoContext
        /\ ScanWithContext)
       => LET s == result'.symbol
              v == result'.votes
          IN  /\ trading_task' # "backoff"
              /\ IF scan_idx < Len(watched_symbols)
                 THEN trading_task' = "running" /\ scan_idx' = scan_idx + 1
                 ELSE trading_task' = "sleeping"
              /\ (CanTradeNow /\ BuyConditions(s, v, result'.price))
                 => (HasKey(positions', s) /\ Len(orders') = Len(orders) + 1)
              /\ (CanTradeNow /\ SellConditions(s, v))
                 => (~HasKey(positions', s) /\ Len(orders') = Len(orders) + 1)]_vars

\* a scan whose context could not be fetched has just bought the symbol
C30_BoughtWithoutContext ==
    /\ result.op = "scan"
    /\ result.market_context = NoContext
    /\ result.votes.buy >= 5
    /\ Len(orders) > 0
    /\ orders[Len(orders)].symbol = result.symbol
    /\ orders[Len(orders)].trade_type = "BUY"
    /\ HasKey(positions, result.symbol)
    /\ GetItem(positions, result.symbol).current_price = Some(result.price)

-----------------------------------------------------------------------------
(* The record sink failing, under LedgerSpec *)

\* C26: a record_trade that raises during an open or a close does not stop or
\* corrupt the ledger transition: the close still removes the position and
\* adds its realized P&L to daily_pnl once, the open still leaves the position
\* in the ledger.
C26_SinkFailureKeepsTransition ==
    [][(/\ result'.op \in {"add_position", "close_position"}
        /\ result'.raised
        /\ LAddPosition \/ LClosePosition)
       => LET s == result'.symbol
          IN  IF result'.op = "add_position"
              THEN /\ HasKey(positions', s)
                   /\ GetItem(positions', s).entry_price = Val(result'.price)
                   /\ daily_pnl' = daily_pnl
              ELSE /\ ~HasKey(positions', s)
                   /\ HasKey(positions, s)
                      => daily_pnl' = daily_pnl
                             + position_pnl(GetItem(positions, s), Val(result'.price))]_vars

-----------------------------------------------------------------------------
(* SessionSpec: start and stop requests around the scan loop *)

SessionNext ==
    \/ Start
    \/ Stop
    \/ LoopWake
    \/ ScanCalmMarket

SessionSpec == Init /\ [][SessionNext]_vars

\* a loop task that has not ended: created, inside an iteration or asleep
LiveTask == {"created", "running", "sleeping", "backoff"}

\* C27: there is one trading session per process: a scan-loop task is created
\* only when no other one is live; a start issued while a session is running
\* creates no second loop and leaves watched_symbols and portfolio_value
\* unchanged; a stop issued while stopped places no orders.
C27_SingleSession ==
    [][/\ (result'.op = "start" /\ result'.ok /\ Start)
          => trading_task \notin LiveTask
       /\ (result'.op = "start" /\ is_trading /\ Start)
          => UNCHANGED <<trading_task, scan_idx, is_trading, watched_symbols,
                         portfolio_value>>
       /\ (result'.op = "stop" /\ ~is_trading /\ Stop)
          => UNCHANGED <<orders, ledger_vars, trading_task, is_trading>>
       /\ (is_trading' <=> trading_task' \in LiveTask)]_vars

\* a start was issued while the session was running with a position open
C27_StartedWhileRunning ==
    /\ result.op = "start"
    /\ ~result.ok
    /\ ~result.raised
    /\ is_trading
    /\ trading_task = "sleeping"
    /\ Len(positions) > 0

-----------------------------------------------------------------------------
(* BreakerSpec: scan cycles over several days *)

BreakerNext ==
    \/ NextDay
    \/ Start
    \/ LoopWake
    \/ ScanCalmMarket

BreakerSpec == Init /\ [][BreakerNext]_vars

\* the day's realized loss has reached the limit and the date has not rolled
\* over since the last reset
BreakerTripped ==
    /\ today = last_reset
    /\ 100 * daily_pnl <= -(portfolio_value * MAX_DAILY_LOSS_PERCENT)

\* C28: while the daily circuit breaker is tripped the scan cycle processes no
\* signal: no BUY and no signal-based SELL is placed, the set of open positions
\* and daily_pnl stay as they are and only marks are refreshed.
C28_TrippedBreakerStopsSignals ==
    [][(result'.op = "scan" /\ BreakerTripped /\ ScanCalmMarket)
       => /\ UNCHANGED <<orders, daily_pnl, last_reset, trades>>
          /\ Len(positions') = Len(positions)
          /\ \A i \in 1..Len(positions) :
                 /\ positions'[i].symbol = positions[i].symbol
                 /\ positions'[i].entry_price = positions[i].entry_price
                 /\ positions'[i].quantity = positions[i].quantity
                 /\ positions'[i].entry_time = positions[i].entry_time]_vars

\* with the breaker tripped, a held symbol under a strong sell signal was
\* scanned: it is still held and carries the mark of that scan
C28_HeldThroughSellSignal ==
    /\ result.op = "scan"
    /\ result.outcome = "analyse"
    /\ BreakerTripped
    /\ result.votes.sell >= 5
    /\ HasKey(positions, result.symbol)
    /\ GetItem(positions, result.symbol).current_price = Some(result.price)

-----------------------------------------------------------------------------
(* The signals the scan cycle acts on, under GenerateSpec *)

\* C29: with MIN_SIGNAL_STRENGTH = 0.7 and the denominator 7, a signal that
\* passes the strength test of process_signals has at least 5 agreeing votes
\* out of at most 6 and a direction that is not 0: a tie never passes.
C29_PassingSignalIsDefinite ==
    result.op = "generate_signal"
    => LET g == result.signal
       IN  strength_passes([buy |-> g.buy_signals, sell |-> g.sell_signals])
           => /\ g.buy_signals >= 5 \/ g.sell_signals >= 5
              /\ g.buy_signals + g.sell_signals <= 6
              /\ g.buy_signals # g.sell_signals
              /\ g.direction \in {-1, 1}
              /\ 10 * g.strength.num >= 7 * g.strength.den

\* a signal of five buy votes against one sell vote passes the test
C29_FiveOfSixPasses ==
    /\ result.op = "generate_signal"
    /\ result.signal.buy_signals = 5
    /\ result.signal.sell_signals = 1
    /\ result.signal.direction = 1
    /\ strength_passes([buy |-> 5, sell |-> 1])
    /\ ~strength_passes([buy |-> 4, sell |-> 2])

-----------------------------------------------------------------------------
(* HistorySpec: the scan cycle on symbols whose history is still short *)

\* the last row of calculate_all_indicators for a history of bars: "none" when
\* it is shorter than every window, "short" when only the 50-bar average is
\* still missing, "full" otherwise; Close and Volume come from the bars
HistoryRow(bars, close, volume) ==
    [EMA_9 |-> IF bars = "none" THEN None ELSE Some(21),
     SMA_20 |-> IF bars = "none" THEN None ELSE Some(20),
     SMA_50 |-> IF bars = "full" THEN Some(19) ELSE None,
     RSI |-> IF bars = "none" THEN None ELSE Some(55),
     MACD |-> IF bars = "none" THEN None ELSE Some(1),
     MACD_Signal |-> IF bars = "none" THEN None ELSE Some(0),
     Close |-> Some(close),
     prev_close |-> Some(70),
     BB_Middle |-> IF bars = "none" THEN None ELSE Some(70),
     Volume |-> Some(volume),
     Volume_SMA |-> IF bars = "none" THEN None ELSE Some(1000)]

HistoryRows ==
    {HistoryRow(bars, close, volume) :
        bars \in {"none", "short", "full"}, close \in Prices, volume \in {900, 1100}}

\* every indicator of the row is missing
Undefined(row) ==
    /\ row.EMA_9 = None /\ row.SMA_20 = None /\ row.SMA_50 = None
    /\ row.RSI = None /\ row.MACD = None /\ row.MACD_Signal = None
    /\ row.BB_Middle = None /\ row.Volume_SMA = None

\* trading_loop, one symbol of the for statement: analyze_stock builds the
\* signal from the last row and takes current_price from its Close; the market
\* is calm, the venue fills every order and the sink accepts every row
ScanHistory ==
    \E row \in HistoryRows :
        LET symbol == watched_symbols[scan_idx]
            signal == generate_signal(row)
            v == [buy |-> signal.buy_signals, sell |-> signal.sell_signals]
            current_price == Val(row.Close)
            r == scan_symbol(World, today, portfolio_value, symbol, v, current_price,
                             TRUE, TRUE)
        IN  /\ trading_task = "running"
            /\ WithinBounds(r.w)
            /\ Len(r.w.orders) <= MaxLedgerTrades
            /\ result' = [op |-> "scan", symbol |-> symbol, row |-> row,
                          signal |-> signal, price |-> current_price,
                          allowed |-> r.allowed]
            /\ SetWorld(r.w)
            /\ NextSymbol
            /\ UNCHANGED <<today, logged_in, is_trading, watched_symbols, portfolio_value,
                           is_active>>

HistoryNext ==
    \/ Start
    \/ LoopWake
    \/ ScanHistory

HistorySpec == Init /\ [][HistoryNext]_vars

\* C31: when every indicator of the latest bar is undefined, generate_signal
\* returns buy_signals = 0, sell_signals = 5, direction = -1 and strength = 5/7:
\* the five non-volume categories vote sell and the volume category does not
\* vote. The signal passes the strength test of process_signals, so a held
\* symbol is sold and its position closed when trading is allowed, and nothing
\* is bought for a symbol that is not held.
C31_UndefinedRowVotesSell ==
    [][(result'.op = "scan" /\ Undefined(result'.row) /\ ScanHistory)
       => LET s == result'.symbol
          IN  /\ result'.signal = [direction |-> -1,
                                   strength |-> [num |-> 5, den |-> 7],
                                   buy_signals |-> 0, sell_signals |-> 5]
              /\ volume_vote(result'.row) = NoVote
              /\ strength_passes([buy |-> 0, sell |-> 5])
              /\ (HasKey(positions, s) /\ result'.allowed)
                 => /\ ~HasKey(positions', s)
                    /\ Len(orders') = Len(orders) + 1
                    /\ orders'[Len(orders')].symbol = s
                    /\ orders'[Len(orders')].trade_type = "SELL"
                    /\ orders'[Len(orders')].quantity = GetItem(positions, s).quantity
              /\ ~HasKey(positions, s)
                 => /\ orders' = orders
                    /\ Keys(positions') = Keys(positions)]_vars

\* a position opened on a full history has just been closed by the scan of a
\* row with no indicator defined, volume above any average included
C31_ClosedOnUndefinedRow ==
    /\ result.op = "scan"
    /\ Undefined(result.row)
    /\ result.row.Volume = Some(1100)
    /\ result.allowed
    /\ ~HasKey(positions, result.symbol)
    /\ Len(orders) >= 2
    /\ orders[Len(orders)].trade_type = "SELL"
    /\ orders[Len(orders)].symbol = result.symbol
    /\ Len(trades) >= 2

====
